---- MODULE Spec2Model ----
(***************************************************************************)
(* Model of the live view of volley-score-v2 (src/live.js, the App         *)
(* component of lines 1273-1720): the poll cycle loadLive with its         *)
(* reconciliation of points, serve possession, play labels and flash       *)
(* tokens, the focus selection and the screen wake lock.                   *)
(*                                                                         *)
(* The live feed is the environment.  It is modelled as the array the      *)
(* /live endpoint would answer with right now (feed), changed by rallies,  *)
(* set changes, matches entering and leaving the array and status          *)
(* changes; lastRally remembers which side won the latest rally of a       *)
(* match, which the feed itself never states.                              *)
(*                                                                         *)
(* JavaScript null / undefined are written Null (numbers) and the records  *)
(* NullServe, NullLabel, NoEvent; a key missing from an object is written  *)
(* AbsentServe.  The updater handed to setEvents is taken to run inside    *)
(* the setEvents call (React's eager state computation), as the code that  *)
(* follows it (serveRef.current = newServe) presumes.                      *)
(*                                                                         *)
(* The platform side of the wake lock: a request of a visible page is      *)
(* granted, one of a hidden page is rejected; release() drops the lock at  *)
(* once and its 'release' event reaches the listener at once or later; a   *)
(* lock the platform takes from a hidden page fires its event in the same  *)
(* step.  An exception thrown by the updater is rethrown by the render,    *)
(* and with no error boundary React unmounts the root, which runs the      *)
(* cleanups of the effects.                                                *)
(***************************************************************************)
EXTENDS Integers, Sequences, FiniteSets, TLC

\* ---------------------------------------------------------------- bounds
\* set slots (home_p<i>/away_p<i>) of the snapshots currentPoints is checked
\* on
MaxSlots == 6
\* records of the /teams answers the classifier is checked on
MaxRoster == 2
\* points at which the modelled feed ends a set
MaxPts == 2
\* number of sets the modelled feed plays
MaxSet == 2
\* fetches that were aborted and whose rejection is still to be delivered
MaxAborted == 1
\* wake-lock requests the platform has not answered yet
MaxPending == 2
\* wake locks granted by the platform and not yet released
MaxLocks == 2
\* base scores of the end-to-end example (10 is the spec's)
ExampleMaxBase == 12

\* ------------------------------------------------------------- constants
\* currentPoints scans home_p5/away_p5 down to home_p1/away_p1
ScanTop == 5

Null == -1
NoDigit == -2

Keys == {"M1", "M2"}
Sides == {"home", "away"}

NullPair == [home |-> Null, away |-> Null]
NullServe == [side |-> "null", hot |-> FALSE]
AbsentServe == [side |-> "absent", hot |-> FALSE]
NullLabel == [side |-> "null", type |-> "null"]
NoFlash == [home |-> 0, away |-> 0]

\* an element of the /live array: status_desc's first number (NoDigit when it
\* has none), home_p<i>/away_p<i>, status_type (live or not), whether it
\* carries event_id or custom_id, home_team_id and away_team_id (Null when
\* missing); present is FALSE for "no element with this key in the array"
NoEvent ==
    [present |-> FALSE, desc |-> NoDigit, sets |-> <<>>, live |-> FALSE,
     hasId |-> FALSE, homeId |-> Null, awayId |-> Null]

\* the three category filters (FILTERS)
Groups == {"mizuno", "abroad", "other"}

\* team ids of the feed (home_team_id, away_team_id) that a roster may know
TeamIds == {501, 777}

\* sofascore_team_id as a /teams record carries it: a number, the decimal
\* string of a number, a string that is no number, "" or null
NumberId(n) == [kind |-> "number", val |-> n]
StringId(n) == [kind |-> "string", val |-> n]
TextId == [kind |-> "text", val |-> Null]
EmptyId == [kind |-> "empty", val |-> Null]
NullId == [kind |-> "null", val |-> Null]

\* no element with this key in the hub's list of live matches
NoHubEvent == [present |-> FALSE]

\* teamsBySofaId.get(id) is undefined
NoTeam == [id |-> NullId, country |-> "none"]

VARIABLES
    feed,          \* environment: key -> the element /live answers with now
    lastRally,     \* environment: key -> side that won the latest rally
    feedNull,      \* environment: the array holds a null element
    roster,        \* environment: the array /teams answers with
    events,        \* useState events: key -> element of the stored array
    serveRef,      \* useRef serveRef.current
    serve,         \* useState serve
    playLabel,     \* useState playLabel
    flash,         \* useState flash
    error,         \* useState error ("" or a message)
    fetchState,    \* request of abortLiveRef.current: "none" | "pending" |
                   \* "settled" | "aborted"
    abortedCnt,    \* aborted fetches whose AbortError is not yet delivered
    inFlight,      \* fetches in flight that no controller has aborted
    mounted,       \* the poll effect is installed (FALSE after its cleanup)
    focusedId,     \* useState focusedId ("null" or a key)
    visible,       \* document.visibilityState = "visible"
    shouldKeepAwake, \* value captured by the wake-lock effect's last run
    wakeLockRef,   \* useRef wakeLockRef.current (0 = null, else a lock id)
    wlPending,     \* navigator.wakeLock.request promises not yet settled
    wlGranted,     \* locks the platform granted and has not released
    wlReleasing,   \* released locks whose 'release' event is still queued
    wlRevoked,     \* the platform took a lock away since the page was hidden
    wlSupported,   \* navigator.wakeLock.request exists
    filter,        \* useState filter
    teams,         \* useState teams
    teamsFetch,    \* the /teams request: "pending" | "settled" | "aborted"
    live,          \* hub page: useState live, the list of live matches
    hubError,      \* hub page: useState error
    filterBy       \* history: what set the filter last, "default" (the
                   \* effect), "button", or "override" (the effect replaced
                   \* the filter a button had set)

vars == <<feed, lastRally, feedNull, events, serveRef, serve, playLabel,
          flash, error, fetchState, abortedCnt, inFlight, mounted, focusedId,
          visible, shouldKeepAwake, wakeLockRef, wlPending, wlGranted,
          wlReleasing, wlRevoked, wlSupported, roster, filter, teams,
          teamsFetch, live, hubError, filterBy>>

envVars == <<feed, lastRally, feedNull, roster>>
fetchVars == <<fetchState, abortedCnt, inFlight>>
pollVars == <<events, serveRef, serve, playLabel, flash>>
wakeVars == <<wakeLockRef, wlPending, wlGranted, wlReleasing>>
pageVars == <<visible, wlRevoked, wlSupported>>
viewVars == <<filter, teams, teamsFetch, filterBy>>
hubVars == <<live, hubError>>

\* ------------------------------------------------------- pure functions

\* ev["home_p" + i], ev["away_p" + i]; a missing field reads undefined
Slot(ev, i) ==
    IF i \in DOMAIN ev.sets THEN ev.sets[i] ELSE NullPair

\* the for loop of currentPoints: highest i in ScanTop..1 with a point
ScanSet(ev) ==
    LET hit == {i \in 1..ScanTop :
                   Slot(ev, i).home # Null \/ Slot(ev, i).away # Null}
    IN IF hit = {} THEN Null
       ELSE CHOOSE i \in hit : \A j \in hit : j <= i

currentPoints(ev) ==
    LET first == IF ev.desc # NoDigit THEN ev.desc ELSE Null
        setNo == IF first = Null \/ first = 0
                 THEN (IF ScanSet(ev) # Null THEN ScanSet(ev) ELSE first)
                 ELSE first
        truthy == setNo # Null /\ setNo # 0
    IN [setNo |-> setNo,
        home |-> IF truthy THEN Slot(ev, setNo).home ELSE Null,
        away |-> IF truthy THEN Slot(ev, setNo).away ELSE Null]

isLiveStatus(ev) == ev.live

\* mutant: a key not seen before reads as 0 : 0
prevPointsZero(prevEvents, k) ==
    IF prevEvents[k].present
    THEN currentPoints(prevEvents[k])
    ELSE [setNo |-> Null, home |-> 0, away |-> 0]

\* prevPointsMap.get(key) || {}
prevPoints(prevEvents, k) ==
    IF prevEvents[k].present
    THEN currentPoints(prevEvents[k])
    ELSE [setNo |-> Null, home |-> Null, away |-> Null]

\* prevServeMap[key] || null
prevServeOf(prevServeMap, k) ==
    IF prevServeMap[k] = AbsentServe THEN NullServe ELSE prevServeMap[k]

\* mutant: >= where the away test has >
awayScoredOrEqual(p, prev) ==
    p.away # Null /\ prev.away # Null /\ p.away >= prev.away

\* a home test that takes a missing previous value for a lower one
homeScoredFromNothing(p, prev) ==
    p.home # Null /\ (prev.home = Null \/ p.home > prev.home)

\* the two tests of loadLive's for loop
homeScored(p, prev) ==
    p.home # Null /\ prev.home # Null /\ p.home > prev.home
awayScored(p, prev) ==
    p.away # Null /\ prev.away # Null /\ p.away > prev.away

\* mutant: the home test runs last and overwrites
sideScoredHomeLast(p, prev) ==
    IF homeScored(p, prev) THEN "home"
    ELSE IF awayScored(p, prev) THEN "away"
    ELSE "null"

\* the two ifs of loadLive: the away test runs last and overwrites
sideScored(p, prev) ==
    IF awayScored(p, prev) THEN "away"
    ELSE IF homeScored(p, prev) THEN "home"
    ELSE "null"

\* mutant: a point on the own serve does not set hot
nextServeNeverHot(prevServe, scored) ==
    IF scored = "null" THEN prevServe
    ELSE [side |-> scored, hot |-> FALSE]

\* mutant: a side-out keeps the hot flag of the side that lost the serve
nextServeKeepsHot(prevServe, scored) ==
    IF scored = "null" THEN prevServe
    ELSE IF prevServe # NullServe /\ prevServe.side = scored
         THEN [side |-> scored, hot |-> TRUE]
    ELSE [side |-> scored, hot |-> prevServe.hot]

\* mutant: a poll without a point cools the serve down
nextServeCoolsDown(prevServe, scored) ==
    IF scored = "null"
    THEN (IF prevServe = NullServe THEN NullServe
          ELSE [side |-> prevServe.side, hot |-> FALSE])
    ELSE IF prevServe # NullServe /\ prevServe.side = scored
         THEN [side |-> scored, hot |-> TRUE]
    ELSE [side |-> scored, hot |-> FALSE]

\* mutant: a poll without a point marks the serve hot
nextServeHotWithoutPoint(prevServe, scored) ==
    IF scored = "null" THEN [side |-> prevServe.side, hot |-> TRUE]
    ELSE IF prevServe # NullServe /\ prevServe.side = scored
         THEN [side |-> scored, hot |-> TRUE]
    ELSE [side |-> scored, hot |-> FALSE]

\* currentServe after the if (sideScored) block
nextServe(prevServe, scored) ==
    IF scored = "null" THEN prevServe
    ELSE IF prevServe # NullServe /\ prevServe.side = scored
         THEN [side |-> scored, hot |-> TRUE]
    ELSE [side |-> scored, hot |-> FALSE]

\* mutant: the first registered serve is labelled a side-out
nextLabelFirstIsSideOut(prevServe, scored) ==
    IF scored = "null" THEN NullLabel
    ELSE IF prevServe # NullServe /\ prevServe.side = scored
         THEN [side |-> scored, type |-> "break-point"]
    ELSE [side |-> scored, type |-> "side-out"]

\* mutant: the two label types change places
nextLabelSwapped(prevServe, scored) ==
    IF scored = "null" THEN NullLabel
    ELSE IF prevServe # NullServe /\ prevServe.side = scored
         THEN [side |-> scored, type |-> "side-out"]
    ELSE IF prevServe # NullServe /\ prevServe.side # scored
         THEN [side |-> scored, type |-> "break-point"]
    ELSE NullLabel

\* label after the if (sideScored) block
nextLabel(prevServe, scored) ==
    IF scored = "null" THEN NullLabel
    ELSE IF prevServe # NullServe /\ prevServe.side = scored
         THEN [side |-> scored, type |-> "break-point"]
    ELSE IF prevServe # NullServe /\ prevServe.side # scored
         THEN [side |-> scored, type |-> "side-out"]
    ELSE NullLabel

\* base + Math.random(): a value the previous render did not show
freshToken(old) == IF old = 1 THEN 2 ELSE 1

\* a flash table that keeps the token of a side that did not score
nextFlashKeeps(p, prev, old) ==
    [home |-> IF homeScored(p, prev) THEN freshToken(old.home) ELSE old.home,
     away |-> IF awayScored(p, prev) THEN freshToken(old.away) ELSE old.away]

\* newFlash[key] of one element
nextFlash(p, prev, old) ==
    [home |-> IF homeScored(p, prev) THEN freshToken(old.home) ELSE 0,
     away |-> IF awayScored(p, prev) THEN freshToken(old.away) ELSE 0]

\* ------------------------------------------- roster, groups and filter

\* the Map key of a /teams record: records with a null or "" id are skipped,
\* the others are stored under Number(raw) unless that is NaN
teamKey(raw) ==
    IF raw.kind = "null" \/ raw.kind = "empty" THEN Null
    ELSE IF raw.kind = "text" THEN Null
    ELSE raw.val

\* teamsBySofaId: map.set in array order, so the last record of an id stays
teamsBySofaId(tms) ==
    [n \in TeamIds |->
        LET hit == {i \in DOMAIN tms : teamKey(tms[i].id) = n}
        IN IF hit = {} THEN NoTeam
           ELSE tms[CHOOSE i \in hit : \A j \in hit : j <= i]]

\* teamsBySofaId.get(getHomeId(ev)): a missing id reads null, which is no key
mapGet(map, id) == IF id \in DOMAIN map THEN map[id] ELSE NoTeam

\* a classifier that looks the home team up and not the away team
classifyHomeOnly(ev, map) ==
    LET homeTeam == mapGet(map, ev.homeId)
    IN IF homeTeam # NoTeam /\ homeTeam.country = "Norge" THEN "mizuno"
       ELSE IF homeTeam # NoTeam THEN "abroad"
       ELSE "other"

\* classifyEventGroup(ev, teamsBySofaId), given a Map
classifyEventGroup(ev, map) ==
    LET homeTeam == mapGet(map, ev.homeId)
        awayTeam == mapGet(map, ev.awayId)
        hasNorwegian == \/ (homeTeam # NoTeam /\ homeTeam.country = "Norge")
                        \/ (awayTeam # NoTeam /\ awayTeam.country = "Norge")
        anyKnown == homeTeam # NoTeam \/ awayTeam # NoTeam
    IN IF hasNorwegian THEN "mizuno"
       ELSE IF anyKnown THEN "abroad"
       ELSE "other"

\* counts: live events per group
countsOf(evs, tms) ==
    [g \in Groups |->
        Cardinality({k \in Keys :
            /\ evs[k].present
            /\ isLiveStatus(evs[k])
            /\ classifyEventGroup(evs[k], teamsBySofaId(tms)) = g})]

\* the default-filter effect's choice
defaultFilter(c) ==
    IF c.mizuno > 0 THEN "mizuno"
    ELSE IF c.abroad > 0 THEN "abroad"
    ELSE "other"

\* a default-filter effect that leaves a filter other than 'other' alone
filterAfterKeepsChoice(flt, evs, tms, evs2, tms2) ==
    IF countsOf(evs2, tms2) # countsOf(evs, tms) /\ flt = "other"
    THEN defaultFilter(countsOf(evs2, tms2))
    ELSE flt

\* filter after a render that moved events and teams from (evs, tms) to
\* (evs2, tms2): the default-filter effect runs when a count changed
filterAfter(flt, evs, tms, evs2, tms2) ==
    IF countsOf(evs2, tms2) # countsOf(evs, tms)
    THEN defaultFilter(countsOf(evs2, tms2))
    ELSE flt

\* what set the filter last, after the same render
filterByAfter(by, flt, evs, tms, evs2, tms2) ==
    IF countsOf(evs2, tms2) = countsOf(evs, tms) THEN by
    ELSE IF by = "button" /\ filterAfter(flt, evs, tms, evs2, tms2) # flt
    THEN "override"
    ELSE "default"

\* eventId(ev) of the element with key k: event_id ?? custom_id ?? null
eventId(k, ev) == IF ev.hasId THEN k ELSE "null"

\* a click that only ever toggles: with a match focused it clears the focus
nextFocusNoReplace(prev, id) == IF prev = "null" THEN id ELSE "null"

\* EventCard onClick: setFocusedId(null) for a card without id, else
\* setFocusedId(prev => prev === id ? null : id)
nextFocus(prev, id) ==
    IF id = "null" THEN "null"
    ELSE IF prev = id THEN "null"
    ELSE id

\* ------------------------------------------------------ the wake lock

\* navigator.wakeLock.request('screen') resolved: a lock object not in use
FreeLocks == (1..MaxLocks) \ (wlGranted \cup wlReleasing)

\* requestWakeLock up to its await: asks the platform, when it has the API,
\* unless the ref is set
requestWakeLock(ref, pending) ==
    IF wlSupported /\ ref = 0 THEN pending + 1 ELSE pending

\* requestWakeLock called by n runs of the effect in a row (n is 1 or 2)
requestRuns(ref, pending, n) ==
    IF n = 1 THEN requestWakeLock(ref, pending)
    ELSE requestWakeLock(ref, requestWakeLock(ref, pending))

\* wakeLockRef.current.release(): the platform drops the lock and queues its
\* 'release' event
releaseGranted(ref, granted) == granted \ {ref}
releaseQueued(ref, granted, releasing) ==
    IF ref \in granted THEN releasing \cup {ref} ELSE releasing

\* releaseWakeLock: release the lock the ref holds, clear the ref
releaseWakeLock ==
    /\ wakeLockRef' = 0
    /\ wlGranted' = releaseGranted(wakeLockRef, wlGranted)
    /\ wlReleasing' = releaseQueued(wakeLockRef, wlGranted, wlReleasing)
    /\ UNCHANGED wlPending

\* liveEvents.find(ev => eventId(ev) === focusedId) (filtered is a part of
\* liveEvents, so the first find adds nothing)
focusedEvent(f, evs) ==
    IF /\ f # "null"
       /\ evs[f].present
       /\ isLiveStatus(evs[f])
       /\ eventId(f, evs[f]) = f
    THEN evs[f]
    ELSE NoEvent

keepAwake(f, evs) ==
    LET fe == focusedEvent(f, evs)
    IN fe.present /\ isLiveStatus(fe) /\ currentPoints(fe).setNo # Null

\* the wake-lock effect, run n times in a row after renders with focusedId f
\* and events evs
WakeEffectRuns(f, evs, n) ==
    /\ shouldKeepAwake' = keepAwake(f, evs)
    /\ IF keepAwake(f, evs)
       THEN /\ wlPending' = requestRuns(wakeLockRef, wlPending, n)
            /\ wlPending' <= MaxPending
            /\ UNCHANGED <<wakeLockRef, wlGranted, wlReleasing>>
       ELSE releaseWakeLock

\* one run of the effect
WakeEffect(f, evs) == WakeEffectRuns(f, evs, 1)

\* the renders after events and teams moved to (evs2, tms2): one, and one
\* more when the default-filter effect changed the filter (filtered is a
\* dependency of the wake-lock effect)
rendersAfter(flt, evs, tms, evs2, tms2) ==
    IF filterAfter(flt, evs, tms, evs2, tms2) # flt THEN 2 ELSE 1

\* ------------------------------------------------------ the environment

\* the set the match is playing: highest slot of the feed with points
WorldSet(f) ==
    LET hit == {i \in DOMAIN f.sets : f.sets[i] # NullPair}
    IN IF hit = {} THEN 0 ELSE CHOOSE i \in hit : \A j \in hit : j <= i

SetOver(f) ==
    /\ WorldSet(f) > 0
    /\ \/ f.sets[WorldSet(f)].home >= MaxPts
       \/ f.sets[WorldSet(f)].away >= MaxPts

\* a rally is won by side s: its points of the running set go up by one
FeedRally(k, s) ==
    /\ WorldSet(feed[k]) > 0
    /\ feed' = [feed EXCEPT ![k].sets[WorldSet(feed[k])][s] = @ + 1]
    /\ lastRally' = [lastRally EXCEPT ![k] = s]
    /\ UNCHANGED <<feedNull, roster, pollVars, error, fetchVars, mounted,
                   focusedId, pageVars, hubVars, viewVars, shouldKeepAwake,
                   wakeVars>>

\* the first set starts, or the next one after a finished set
FeedNextSet(k) ==
    /\ WorldSet(feed[k]) < MaxSet
    /\ WorldSet(feed[k]) = 0 \/ SetOver(feed[k])
    /\ feed' = [feed EXCEPT ![k].sets[WorldSet(feed[k]) + 1] =
                                [home |-> 0, away |-> 0]]
    /\ UNCHANGED <<lastRally, feedNull, roster, pollVars, error, fetchVars,
                   mounted, focusedId, pageVars, hubVars, viewVars,
                   shouldKeepAwake, wakeVars>>

\* the match enters or leaves the /live array
FeedPresence(k) ==
    /\ feed' = [feed EXCEPT ![k].present = ~@]
    /\ UNCHANGED <<lastRally, feedNull, roster, pollVars, error, fetchVars,
                   mounted, focusedId, pageVars, hubVars, viewVars,
                   shouldKeepAwake, wakeVars>>

\* status_type changes between a live and a not-live value
FeedStatus(k) ==
    /\ feed' = [feed EXCEPT ![k].live = ~@]
    /\ UNCHANGED <<lastRally, feedNull, roster, pollVars, error, fetchVars,
                   mounted, focusedId, pageVars, hubVars, viewVars,
                   shouldKeepAwake, wakeVars>>

\* ------------------------------------------------------------- loadLive

\* the array safeArray(data) as a table: elements present in the answer
nextEventsOf(data) ==
    [k \in Keys |-> IF data[k].present THEN data[k] ELSE NoEvent]

\* newServe / newPlayLabel / newFlash as the for loop of the updater leaves
\* them: one entry per element of nextEvents
\* a serve table whose sideScored is not reset per element: a match without
\* a point of its own takes the side that scored in another match
newServeOfShared(prevEvents, prevServeMap, nextEvents) ==
    [k \in Keys |->
        IF ~nextEvents[k].present THEN AbsentServe
        ELSE LET own == sideScored(currentPoints(nextEvents[k]),
                                   prevPoints(prevEvents, k))
                 others == {sideScored(currentPoints(nextEvents[j]),
                                       prevPoints(prevEvents, j)) :
                               j \in {i \in Keys : nextEvents[i].present}}
                               \ {"null"}
             IN nextServe(prevServeOf(prevServeMap, k),
                          IF own # "null" \/ others = {} THEN own
                          ELSE CHOOSE o \in others : TRUE)]

newServeOf(prevEvents, prevServeMap, nextEvents) ==
    [k \in Keys |->
        IF nextEvents[k].present
        THEN nextServe(prevServeOf(prevServeMap, k),
                       sideScored(currentPoints(nextEvents[k]),
                                  prevPoints(prevEvents, k)))
        ELSE AbsentServe]

\* a label table that keeps the label of a match without a new point
newPlayLabelKeeps(prevEvents, prevServeMap, nextEvents) ==
    [k \in Keys |->
        IF ~nextEvents[k].present THEN NullLabel
        ELSE IF sideScored(currentPoints(nextEvents[k]),
                           prevPoints(prevEvents, k)) = "null"
        THEN playLabel[k]
        ELSE nextLabel(prevServeOf(prevServeMap, k),
                       sideScored(currentPoints(nextEvents[k]),
                                  prevPoints(prevEvents, k)))]

newPlayLabelOf(prevEvents, prevServeMap, nextEvents) ==
    [k \in Keys |->
        IF nextEvents[k].present
        THEN nextLabel(prevServeOf(prevServeMap, k),
                       sideScored(currentPoints(nextEvents[k]),
                                  prevPoints(prevEvents, k)))
        ELSE NullLabel]

newFlashOf(prevEvents, oldFlash, nextEvents) ==
    [k \in Keys |->
        IF nextEvents[k].present
        THEN nextFlash(currentPoints(nextEvents[k]),
                       prevPoints(prevEvents, k), oldFlash[k])
        ELSE NoFlash]

\* a cycle that replaces the controller without aborting the old one
abortInFlightNever(state) == 0

\* abortLiveRef.current.abort(): cancels the controller's request when it
\* is still in flight
abortInFlight(state) == IF state = "pending" THEN 1 ELSE 0

\* loadLive up to its await: abort the previous controller, install a new
\* one, clear the error, start the fetch
LoadLiveStart ==
    /\ mounted
    /\ abortedCnt' = abortedCnt + abortInFlight(fetchState)
    /\ abortedCnt' <= MaxAborted
    /\ inFlight' = inFlight - abortInFlight(fetchState) + 1
    /\ inFlight' <= MaxAborted + 1
    /\ fetchState' = "pending"
    /\ error' = ""
    /\ UNCHANGED <<envVars, pollVars, mounted, focusedId, pageVars, hubVars,
                   viewVars, shouldKeepAwake, wakeVars>>

\* the updater of setEvents ran over every element: publish, then the render
\* and the wake-lock effect that follow the new events
LoadLivePublish ==
    /\ events' = nextEventsOf(feed)
    /\ serveRef' = newServeOf(events, serveRef, nextEventsOf(feed))
    /\ serve' = serveRef'
    /\ playLabel' = newPlayLabelOf(events, serveRef, nextEventsOf(feed))
    /\ flash' = newFlashOf(events, flash, nextEventsOf(feed))
    /\ filter' = filterAfter(filter, events, teams, events', teams)
    /\ filterBy' = filterByAfter(filterBy, filter, events, teams, events',
                                 teams)
    /\ WakeEffectRuns(focusedId, events',
                      rendersAfter(filter, events, teams, events', teams))
    /\ UNCHANGED <<mounted, teamsFetch>>

\* the updater met a null element: eventKey(ev) reads ev.event_id and throws
\* a TypeError. newServe keeps the entries of the elements before the null
\* one (done) and goes to serveRef; no state is committed, the render that
\* re-runs the updater throws, React unmounts the root and the cleanups of
\* the effects run
LoadLiveThrows ==
    /\ \E done \in SUBSET Keys :
          serveRef' = [k \in Keys |->
                          IF k \in done
                          THEN newServeOf(events, serveRef,
                                          nextEventsOf(feed))[k]
                          ELSE AbsentServe]
    /\ mounted' = FALSE
    /\ teamsFetch' = IF teamsFetch = "pending" THEN "aborted" ELSE teamsFetch
    /\ releaseWakeLock
    /\ UNCHANGED <<events, serve, playLabel, flash, shouldKeepAwake, filter,
                   filterBy>>

\* the fetch answered with the feed's array
LoadLiveResolve ==
    /\ inFlight > 0
    /\ inFlight' = inFlight - 1
    /\ fetchState' = IF inFlight = 1 THEN "settled" ELSE fetchState
    /\ IF feedNull THEN LoadLiveThrows ELSE LoadLivePublish
    /\ UNCHANGED <<envVars, error, abortedCnt, focusedId, pageVars, hubVars,
                   teams>>

\* a catch branch that also drops the stored snapshots
LoadLiveRejectClears ==
    /\ inFlight > 0
    /\ inFlight' = inFlight - 1
    /\ fetchState' = IF inFlight = 1 THEN "settled" ELSE fetchState
    /\ error' = "msg"
    /\ events' = [k \in Keys |-> NoEvent]
    /\ UNCHANGED <<envVars, serveRef, serve, playLabel, flash, abortedCnt,
                   mounted, focusedId, pageVars, hubVars, viewVars,
                   shouldKeepAwake, wakeVars>>

\* a catch branch that also resets the serve tables
LoadLiveRejectForgetsServe ==
    /\ inFlight > 0
    /\ inFlight' = inFlight - 1
    /\ fetchState' = IF inFlight = 1 THEN "settled" ELSE fetchState
    /\ error' = "msg"
    /\ serveRef' = [k \in Keys |-> AbsentServe]
    /\ serve' = [k \in Keys |-> AbsentServe]
    /\ UNCHANGED <<envVars, events, playLabel, flash, abortedCnt, mounted,
                   focusedId, pageVars, hubVars, viewVars, shouldKeepAwake,
                   wakeVars>>

\* the fetch failed (network, HTTP status, JSON): the catch branch
LoadLiveReject ==
    /\ inFlight > 0
    /\ inFlight' = inFlight - 1
    /\ fetchState' = IF inFlight = 1 THEN "settled" ELSE fetchState
    /\ error' = "msg"
    /\ UNCHANGED <<envVars, pollVars, abortedCnt, mounted, focusedId,
                   pageVars, hubVars, viewVars, shouldKeepAwake, wakeVars>>

\* an aborted fetch whose answer is still reconciled and published
LoadLiveAbortedMerges ==
    /\ abortedCnt > 0
    /\ abortedCnt' = abortedCnt - 1
    /\ LoadLivePublish
    /\ UNCHANGED <<envVars, error, fetchState, inFlight, focusedId, pageVars,
                   hubVars, teams>>

\* an aborted fetch whose AbortError is shown like any other failure
LoadLiveAbortedReports ==
    /\ abortedCnt > 0
    /\ abortedCnt' = abortedCnt - 1
    /\ error' = "msg"
    /\ UNCHANGED <<envVars, pollVars, fetchState, inFlight, mounted,
                   focusedId, pageVars, hubVars, viewVars, shouldKeepAwake,
                   wakeVars>>

\* an aborted fetch rejects with AbortError: the catch branch returns
LoadLiveAborted ==
    /\ abortedCnt > 0
    /\ abortedCnt' = abortedCnt - 1
    /\ UNCHANGED <<envVars, pollVars, error, fetchState, inFlight, mounted,
                   focusedId, pageVars, hubVars, viewVars, shouldKeepAwake,
                   wakeVars>>

\* a cleanup that clears the timer and releases the lock but leaves the
\* request of the last cycle running
TeardownKeepsFetch ==
    /\ mounted
    /\ mounted' = FALSE
    /\ releaseWakeLock
    /\ UNCHANGED <<envVars, pollVars, error, fetchVars, focusedId, pageVars,
                   hubVars, viewVars, shouldKeepAwake>>

\* cleanup of the poll effect: clearInterval, abort the controller,
\* releaseWakeLock; the cleanup of the wake-lock effect removes the
\* visibilitychange listener
Teardown ==
    /\ mounted
    /\ mounted' = FALSE
    /\ abortedCnt' = abortedCnt + abortInFlight(fetchState)
    /\ inFlight' = inFlight - abortInFlight(fetchState)
    /\ fetchState' = IF fetchState = "pending" THEN "aborted" ELSE fetchState
    /\ teamsFetch' = IF teamsFetch = "pending" THEN "aborted" ELSE teamsFetch
    /\ releaseWakeLock
    /\ UNCHANGED <<envVars, pollVars, error, focusedId, pageVars, hubVars,
                   filter, filterBy, teams, shouldKeepAwake>>

\* ---------------------------------------------------------------- focus

\* the cards on screen (visible): the focused match alone when it is found
\* among the live events, else the list
onScreen(k) ==
    IF focusedEvent(focusedId, events).present
    THEN focusedId = k
    ELSE /\ events[k].present
         /\ isLiveStatus(events[k])
         /\ classifyEventGroup(events[k], teamsBySofaId(teams)) = filter

\* EventCard onClick, then the render and the wake-lock effect when the
\* focus changed
SelectMatch(k) ==
    /\ mounted
    /\ visible
    /\ onScreen(k)
    /\ focusedId' = nextFocus(focusedId, eventId(k, events[k]))
    /\ IF focusedId' # focusedId
       THEN WakeEffect(focusedId', events)
       ELSE UNCHANGED <<shouldKeepAwake, wakeVars>>
    /\ UNCHANGED <<envVars, pollVars, error, fetchVars, mounted, pageVars,
                   hubVars, viewVars>>

\* a filter button: setFilter(f.key); setFocusedId(null), then the render
\* and the wake-lock effect when either changed
SelectFilter(f) ==
    /\ mounted
    /\ visible
    /\ filter' = f
    /\ filterBy' = "button"
    /\ focusedId' = "null"
    /\ IF filter' # filter \/ focusedId' # focusedId
       THEN WakeEffect(focusedId', events)
       ELSE UNCHANGED <<shouldKeepAwake, wakeVars>>
    /\ UNCHANGED <<envVars, pollVars, error, fetchVars, mounted, pageVars,
                   hubVars, teams, teamsFetch>>

\* the back button, rendered while focusedId is set: setFocusedId(null)
ClearFocus ==
    /\ mounted
    /\ visible
    /\ focusedId # "null"
    /\ focusedId' = "null"
    /\ WakeEffect(focusedId', events)
    /\ UNCHANGED <<envVars, pollVars, error, fetchVars, mounted, pageVars,
                   hubVars, viewVars>>

\* ------------------------------------------------- wake lock, platform side

\* the request promise resolves with a lock: requestWakeLock after its await
\* (the platform grants a screen lock to a visible page only)
WlResolve(l) ==
    /\ visible
    /\ wlPending > 0
    /\ l \in FreeLocks
    /\ wlPending' = wlPending - 1
    /\ wlGranted' = wlGranted \cup {l}
    /\ wakeLockRef' = l
    /\ UNCHANGED <<envVars, pollVars, error, fetchVars, mounted, focusedId,
                   pageVars, hubVars, viewVars, shouldKeepAwake, wlReleasing>>

\* the queued 'release' event of lock l reaches the listener added by
\* requestWakeLock: wakeLockRef.current = null
WlReleaseEvent(l) ==
    /\ l \in wlReleasing
    /\ wlReleasing' = wlReleasing \ {l}
    /\ wakeLockRef' = 0
    /\ UNCHANGED <<envVars, pollVars, error, fetchVars, mounted, focusedId,
                   pageVars, hubVars, viewVars, shouldKeepAwake, wlPending,
                   wlGranted>>

\* the request promise of a hidden page rejects (NotAllowedError): the catch
\* branch of requestWakeLock warns
WlReject ==
    /\ ~visible
    /\ wlPending > 0
    /\ wlPending' = wlPending - 1
    /\ UNCHANGED <<envVars, pollVars, error, fetchVars, mounted, focusedId,
                   pageVars, hubVars, viewVars, shouldKeepAwake, wakeLockRef,
                   wlGranted, wlReleasing>>

\* a request promise that shows an error message when the platform denies
WlDenyReports ==
    /\ visible
    /\ wlPending > 0
    /\ wlPending' = wlPending - 1
    /\ error' = "msg"
    /\ UNCHANGED <<envVars, pollVars, fetchVars, mounted, focusedId, pageVars,
                   hubVars, viewVars, shouldKeepAwake, wakeLockRef, wlGranted,
                   wlReleasing>>

\* the platform denies the request of a visible page (permission, battery
\* saver): the promise rejects and the catch branch of requestWakeLock warns
WlDeny ==
    /\ visible
    /\ wlPending > 0
    /\ wlPending' = wlPending - 1
    /\ UNCHANGED <<envVars, pollVars, error, fetchVars, mounted, focusedId,
                   pageVars, hubVars, viewVars, shouldKeepAwake, wakeLockRef,
                   wlGranted, wlReleasing>>

\* the platform takes lock l away from the hidden page and fires its
\* 'release' event: the listener clears the ref
PlatformRevoke(l) ==
    /\ ~visible
    /\ l \in wlGranted
    /\ wlGranted' = wlGranted \ {l}
    /\ wakeLockRef' = 0
    /\ wlRevoked' = TRUE
    /\ UNCHANGED <<envVars, pollVars, error, fetchVars, mounted, focusedId,
                   visible, wlSupported, viewVars, shouldKeepAwake, wlPending,
                   wlReleasing, hubVars>>

\* a listener that never asks for the lock again
handleVisibilityIdle(vis, should, ref, pending) == pending

\* handleVisibility, the visibilitychange listener of the wake-lock effect's
\* last run: pending requests after it ran
handleVisibility(vis, should, ref, pending) ==
    IF vis /\ should THEN requestWakeLock(ref, pending) ELSE pending

\* the page goes to the background
Hide ==
    /\ visible
    /\ visible' = FALSE
    /\ wlRevoked' = FALSE
    /\ wlPending' = IF mounted
                    THEN handleVisibility(visible', shouldKeepAwake,
                                          wakeLockRef, wlPending)
                    ELSE wlPending
    /\ UNCHANGED <<envVars, pollVars, error, fetchVars, mounted, focusedId,
                   wlSupported, viewVars, shouldKeepAwake, wakeLockRef,
                   wlGranted, wlReleasing, hubVars>>

\* the page comes back to the foreground
Show ==
    /\ ~visible
    /\ visible' = TRUE
    /\ wlPending' = IF mounted
                    THEN handleVisibility(visible', shouldKeepAwake,
                                          wakeLockRef, wlPending)
                    ELSE wlPending
    /\ wlPending' <= MaxPending
    /\ UNCHANGED <<envVars, pollVars, error, fetchVars, mounted, focusedId,
                   wlRevoked, wlSupported, viewVars, shouldKeepAwake,
                   wakeLockRef, wlGranted, wlReleasing, hubVars>>

\* the /teams request failed: console.warn
TeamsReject ==
    /\ teamsFetch = "pending"
    /\ teamsFetch' = "settled"
    /\ UNCHANGED <<envVars, pollVars, error, fetchVars, mounted, focusedId,
                   pageVars, hubVars, filter, filterBy, teams,
                   shouldKeepAwake, wakeVars>>

\* the /teams request answered: setTeams(safeArray(data)), then the renders
\* (teamsBySofaId, counts and filtered are rebuilt), the default-filter
\* effect and the wake-lock effect
TeamsResolve ==
    /\ teamsFetch = "pending"
    /\ teamsFetch' = "settled"
    /\ teams' = roster
    /\ filter' = filterAfter(filter, events, teams, events, teams')
    /\ filterBy' = filterByAfter(filterBy, filter, events, teams, events,
                                 teams')
    /\ WakeEffectRuns(focusedId, events,
                      rendersAfter(filter, events, teams, events, teams'))
    /\ UNCHANGED <<envVars, pollVars, error, fetchVars, mounted, focusedId,
                   pageVars, hubVars>>

\* the feed's array gains or loses a null element
FeedNull ==
    /\ feedNull' = ~feedNull
    /\ UNCHANGED <<feed, lastRally, roster, pollVars, error, fetchVars,
                   mounted, focusedId, pageVars, hubVars, viewVars,
                   shouldKeepAwake, wakeVars>>

\* ------------------------------------------------------- the hub page

\* toSofaId of normalizeEvent: a missing id stays null; the feed's team
\* ids are numbers up to 1000 that are no DB team ids, so they fall through
\* to Number(x)
toSofaId(x) == IF x = Null THEN Null ELSE x

\* normalizeEvent(raw, sofaTeamIdByDbTeamId): the raw element wrapped, with
\* the ids it derives
normalizeEvent(raw) ==
    [present |-> TRUE, raw |-> raw,
     homeId |-> toSofaId(raw.homeId), awayId |-> toSofaId(raw.awayId)]

\* safeArray(liveData).map(normalizeEvent) as a table
hubLiveOf(data) ==
    [k \in Keys |->
        IF data[k].present THEN normalizeEvent(data[k]) ELSE NoHubEvent]

\* loadGlobalMatches after Promise.allSettled: a rejected request reads as
\* [], setLive(liveArr), and the message when all three were rejected
loadGlobalMatches(liveOk, nextOk, prevOk, cleared) ==
    /\ live' = IF liveOk THEN hubLiveOf(feed)
               ELSE [k \in Keys |-> NoHubEvent]
    /\ hubError' = IF ~liveOk /\ ~nextOk /\ ~prevOk THEN "msg" ELSE cleared

\* one tick of the hub's interval: loadCore when CORE_REFRESH_MS has passed
\* (setError(""), then the /teams and /players requests, whose failure ends
\* the callback), then loadGlobalMatches; selectedTeam is the null of the
\* mount render
HubTick(refresh, coreOk, liveOk, nextOk, prevOk) ==
    /\ IF refresh /\ ~coreOk
       THEN hubError' = "" /\ live' = live
       ELSE loadGlobalMatches(liveOk, nextOk, prevOk,
                              IF refresh THEN "" ELSE hubError)
    /\ UNCHANGED <<envVars, pollVars, error, fetchVars, mounted, focusedId,
                   pageVars, viewVars, shouldKeepAwake, wakeVars>>

\* ------------------------------------------------------------------ Init

EmptySets == [i \in 1..MaxSet |-> NullPair]

InitFeed ==
    [k \in Keys |->
        [present |-> FALSE, desc |-> NoDigit, sets |-> EmptySets,
         live |-> TRUE, hasId |-> TRUE, homeId |-> Null, awayId |-> Null]]

InitApp ==
    /\ events = [k \in Keys |-> NoEvent]
    /\ serveRef = [k \in Keys |-> AbsentServe]
    /\ serve = [k \in Keys |-> AbsentServe]
    /\ playLabel = [k \in Keys |-> NullLabel]
    /\ flash = [k \in Keys |-> NoFlash]
    /\ error = ""
    /\ fetchState = "none"
    /\ abortedCnt = 0
    /\ inFlight = 0
    /\ mounted = TRUE
    /\ focusedId = "null"
    /\ visible = TRUE
    /\ wlRevoked = FALSE
    /\ wlSupported = TRUE
    /\ filter = "other"
    /\ teams = <<>>
    /\ teamsFetch = "pending"
    /\ filterBy = "default"
    /\ live = [k \in Keys |-> NoHubEvent]
    /\ hubError = ""
    /\ shouldKeepAwake = FALSE
    /\ wakeLockRef = 0
    /\ wlPending = 0
    /\ wlGranted = {}
    /\ wlReleasing = {}

Init ==
    /\ feed = InitFeed
    /\ lastRally = [k \in Keys |-> "null"]
    /\ feedNull = FALSE
    /\ roster = <<>>
    /\ InitApp

\* the match the single-match specifications follow
Tracked == "M1"

\* the feed plays a set to MaxPts points
PlayRally(k, s) == ~SetOver(feed[k]) /\ FeedRally(k, s)

\* the reconciler under a feed that plays rallies and sets of one match
Next ==
    \/ \E s \in Sides : PlayRally(Tracked, s)
    \/ FeedNextSet(Tracked)
    \/ FeedPresence(Tracked)
    \/ LoadLiveStart
    \/ LoadLiveResolve
    \/ LoadLiveReject
    \/ LoadLiveAborted

Spec == Init /\ [][Next]_vars

\* ---- the reconciler alone: the same feed, polled by cycles that do not
\* overlap and always get an answer
LoadLiveInTurn == fetchState # "pending" /\ LoadLiveStart

NextReconcile ==
    \/ \E s \in Sides : PlayRally(Tracked, s)
    \/ FeedNextSet(Tracked)
    \/ FeedPresence(Tracked)
    \/ LoadLiveInTurn
    \/ LoadLiveResolve

SpecReconcile == Init /\ [][NextReconcile]_vars

\* ---- the end-to-end example: set 1 goes (b,b), (b+1,b), (b+2,b),
\* (b+2,b+1), and each score is polled successfully exactly once
InitExample ==
    /\ \E b \in 0..ExampleMaxBase :
          feed = [InitFeed EXCEPT
                    ![Tracked].present = TRUE,
                    ![Tracked].sets[1] = [home |-> b, away |-> b]]
    /\ lastRally = [k \in Keys |-> "null"]
    /\ feedNull = FALSE
    /\ roster = <<>>
    /\ InitApp

ExampleSide ==
    LET p == feed[Tracked].sets[1]
    IN IF lastRally[Tracked] = "null" THEN "home"
       ELSE IF lastRally[Tracked] = "home" /\ p.home = p.away + 1 THEN "home"
       ELSE IF lastRally[Tracked] = "home" THEN "away"
       ELSE "null"

ExampleRally ==
    /\ events[Tracked] = feed[Tracked]
    /\ ExampleSide # "null"
    /\ FeedRally(Tracked, ExampleSide)

ExamplePoll ==
    /\ events[Tracked] # feed[Tracked]
    /\ LoadLiveResolve

NextExample ==
    \/ ExampleRally
    \/ ExamplePoll
    \/ LoadLiveStart
    \/ LoadLiveReject
    \/ LoadLiveAborted

SpecExample == InitExample /\ [][NextExample]_vars

\* ---- focus and wake lock under a platform that grants every request:
\* the feed starts sets, changes status and drops or adds the match
NextWake ==
    \/ FeedNextSet(Tracked)
    \/ FeedPresence(Tracked)
    \/ FeedStatus(Tracked)
    \/ LoadLiveStart
    \/ LoadLiveResolve
    \/ LoadLiveReject
    \/ LoadLiveAborted
    \/ SelectMatch(Tracked)
    \/ ClearFocus
    \/ \E l \in 1..MaxLocks : WlResolve(l)
    \/ \E l \in 1..MaxLocks : WlReleaseEvent(l)
    \/ Teardown

SpecWake == Init /\ [][NextWake]_vars

\* ---- the same with a page that goes to the background and comes back, and
\* a platform that answers every request and delivers every event
NextVisible ==
    \/ NextWake
    \/ Hide
    \/ Show
    \/ WlReject
    \/ \E l \in 1..MaxLocks : PlatformRevoke(l)

SpecVisible ==
    /\ Init
    /\ [][NextVisible]_vars
    /\ WF_vars(\E l \in 1..MaxLocks : WlResolve(l))
    /\ WF_vars(\E l \in 1..MaxLocks : WlReleaseEvent(l))

\* ---- the poll cycle from mount to teardown, under a feed that plays the
\* first set of one match
FeedFirstSet == WorldSet(feed[Tracked]) = 0 /\ FeedNextSet(Tracked)

NextPoll ==
    \/ \E s \in Sides : PlayRally(Tracked, s)
    \/ FeedFirstSet
    \/ FeedPresence(Tracked)
    \/ LoadLiveStart
    \/ LoadLiveResolve
    \/ LoadLiveReject
    \/ LoadLiveAborted
    \/ Teardown

SpecPoll == Init /\ [][NextPoll]_vars

\* ---- the same under a feed whose array may hold a null element
NextMalformed ==
    \/ NextPoll
    \/ FeedNull

SpecMalformed == Init /\ [][NextMalformed]_vars

\* ---- filter and focus: two matches that enter and leave the feed, with or
\* without a stable id, a roster that knows one of the teams, on a browser
\* without the Wake Lock API
ViewRosters ==
    {<<[id |-> NumberId(501), country |-> "Norge"]>>,
     <<[id |-> NumberId(777), country |-> "Sverige"]>>}

InitView ==
    /\ \E ids \in [Keys -> BOOLEAN] :
          feed = [k \in Keys |->
                    [InitFeed[k] EXCEPT
                        !.hasId = ids[k],
                        !.homeId = IF k = Tracked THEN 501 ELSE 777]]
    /\ lastRally = [k \in Keys |-> "null"]
    /\ feedNull = FALSE
    /\ roster \in ViewRosters
    /\ events = [k \in Keys |-> NoEvent]
    /\ serveRef = [k \in Keys |-> AbsentServe]
    /\ serve = [k \in Keys |-> AbsentServe]
    /\ playLabel = [k \in Keys |-> NullLabel]
    /\ flash = [k \in Keys |-> NoFlash]
    /\ error = ""
    /\ fetchState = "none"
    /\ abortedCnt = 0
    /\ inFlight = 0
    /\ mounted = TRUE
    /\ focusedId = "null"
    /\ visible = TRUE
    /\ wlRevoked = FALSE
    /\ wlSupported = FALSE
    /\ filter = "other"
    /\ teams = <<>>
    /\ teamsFetch = "pending"
    /\ filterBy = "default"
    /\ live = [k \in Keys |-> NoHubEvent]
    /\ hubError = ""
    /\ shouldKeepAwake = FALSE
    /\ wakeLockRef = 0
    /\ wlPending = 0
    /\ wlGranted = {}
    /\ wlReleasing = {}

NextView ==
    \/ \E k \in Keys : FeedPresence(k)
    \/ LoadLiveInTurn
    \/ LoadLiveResolve
    \/ TeamsResolve
    \/ \E k \in Keys : SelectMatch(k)
    \/ \E f \in Groups : SelectFilter(f)
    \/ ClearFocus

SpecView == InitView /\ [][NextView]_vars

\* ---- the classifier: one match whose team ids are drawn from the known
\* ids and "missing", a roster drawn from the records below, one /teams
\* answer and polls in turn
RosterIds ==
    {NumberId(501), StringId(501), NumberId(777), TextId, EmptyId, NullId}

RosterRecords == [id : RosterIds, country : {"Norge", "Sverige"}]

RECURSIVE SeqsUpTo(_, _)
SeqsUpTo(S, n) ==
    IF n = 0 THEN {<<>>}
    ELSE LET shorter == SeqsUpTo(S, n - 1)
         IN shorter \cup {Append(q, x) : q \in shorter, x \in S}

InitClassify ==
    /\ \E h \in TeamIds \cup {Null}, a \in TeamIds \cup {Null} :
          feed = [InitFeed EXCEPT
                    ![Tracked].present = TRUE,
                    ![Tracked].homeId = h,
                    ![Tracked].awayId = a]
    /\ lastRally = [k \in Keys |-> "null"]
    /\ feedNull = FALSE
    /\ roster \in SeqsUpTo(RosterRecords, MaxRoster)
    /\ InitApp

NextClassify ==
    \/ FeedStatus(Tracked)
    \/ LoadLiveInTurn
    \/ LoadLiveResolve
    \/ TeamsResolve

SpecClassify == InitClassify /\ [][NextClassify]_vars

\* ---- the roster request next to the poll cycle, in a session that keeps
\* running: the interval timer fires again and again, and every request is
\* answered
NextRoster ==
    \/ \E k \in Keys : FeedPresence(k)
    \/ LoadLiveInTurn
    \/ LoadLiveResolve
    \/ LoadLiveReject
    \/ TeamsResolve
    \/ TeamsReject

SpecRoster ==
    /\ InitView
    /\ [][NextRoster]_vars
    /\ WF_vars(LoadLiveInTurn)
    /\ WF_vars(LoadLiveResolve \/ LoadLiveReject)
    /\ WF_vars(TeamsResolve \/ TeamsReject)

\* ---- focus and wake lock on a browser that may lack the Wake Lock API and
\* on a platform that grants or denies each request: one match that plays
\* its first set and enters or leaves the feed
InitDeny ==
    /\ feed = [InitFeed EXCEPT
                 ![Tracked].present = TRUE,
                 ![Tracked].sets[1] = [home |-> 0, away |-> 0]]
    /\ lastRally = [k \in Keys |-> "null"]
    /\ feedNull = FALSE
    /\ roster = <<>>
    /\ events = [k \in Keys |-> NoEvent]
    /\ serveRef = [k \in Keys |-> AbsentServe]
    /\ serve = [k \in Keys |-> AbsentServe]
    /\ playLabel = [k \in Keys |-> NullLabel]
    /\ flash = [k \in Keys |-> NoFlash]
    /\ error = ""
    /\ fetchState = "none"
    /\ abortedCnt = 0
    /\ inFlight = 0
    /\ mounted = TRUE
    /\ focusedId = "null"
    /\ visible = TRUE
    /\ wlRevoked = FALSE
    /\ wlSupported \in BOOLEAN
    /\ filter = "other"
    /\ teams = <<>>
    /\ teamsFetch = "pending"
    /\ filterBy = "default"
    /\ live = [k \in Keys |-> NoHubEvent]
    /\ hubError = ""
    /\ shouldKeepAwake = FALSE
    /\ wakeLockRef = 0
    /\ wlPending = 0
    /\ wlGranted = {}
    /\ wlReleasing = {}

NextDeny ==
    \/ FeedPresence(Tracked)
    \/ LoadLiveInTurn
    \/ LoadLiveResolve
    \/ SelectMatch(Tracked)
    \/ ClearFocus
    \/ \E l \in 1..MaxLocks : WlResolve(l)
    \/ \E l \in 1..MaxLocks : WlReleaseEvent(l)
    \/ WlDeny

SpecDeny == InitDeny /\ [][NextDeny]_vars

\* ---- currentPoints: one match whose snapshot is drawn from every filling
\* of MaxSlots set slots and every first number of status_desc, polled in
\* turn
SlotValues ==
    {NullPair, [home |-> 0, away |-> 0], [home |-> 1, away |-> Null]}

InitPoints ==
    /\ \E d \in {NoDigit} \cup (0..MaxSlots),
          ss \in [1..MaxSlots -> SlotValues] :
          feed = [InitFeed EXCEPT
                    ![Tracked].present = TRUE,
                    ![Tracked].desc = d,
                    ![Tracked].sets = ss]
    /\ lastRally = [k \in Keys |-> "null"]
    /\ feedNull = FALSE
    /\ roster = <<>>
    /\ InitApp

NextPoints ==
    \/ FeedPresence(Tracked)
    \/ LoadLiveInTurn
    \/ LoadLiveResolve

SpecPoints == InitPoints /\ [][NextPoints]_vars

\* ---- two matches in the same polls: the tracked one plays its first set,
\* in the other one the home side wins every rally, and every poll cycle is
\* answered before the next one starts
InitPair ==
    /\ feed = [k \in Keys |->
                 [InitFeed[k] EXCEPT
                     !.present = TRUE,
                     !.sets[1] = [home |-> 0, away |-> 0]]]
    /\ lastRally = [k \in Keys |-> "null"]
    /\ feedNull = FALSE
    /\ roster = <<>>
    /\ InitApp

NextPair ==
    \/ \E s \in Sides : PlayRally(Tracked, s)
    \/ PlayRally("M2", "home")
    \/ LoadLiveInTurn
    \/ LoadLiveResolve

SpecPair == InitPair /\ [][NextPair]_vars

\* ---- the hub page: its interval polls the feed of two matches, and each
\* of the three requests of a tick is answered or fails
NextHub ==
    \/ \E k \in Keys : FeedPresence(k)
    \/ FeedStatus(Tracked)
    \/ FeedNextSet(Tracked)
    \/ \E refresh \in BOOLEAN, coreOk \in BOOLEAN, liveOk \in BOOLEAN,
          nextOk \in BOOLEAN, prevOk \in BOOLEAN :
          HubTick(refresh, coreOk, liveOk, nextOk, prevOk)

SpecHub == Init /\ [][NextHub]_vars

\* ================================================================ claims

Other(s) == IF s = "home" THEN "away" ELSE "home"

\* current points of the stored snapshot and of the one a poll now fetches
PtsBefore(k) == currentPoints(events[k])
PtsNow(k) == currentPoints(feed[k])

\* side s of match k shows more points in the fetched snapshot than in the
\* stored one
Rose(k, s) ==
    /\ events[k].present /\ feed[k].present
    /\ PtsBefore(k)[s] # Null /\ PtsNow(k)[s] # Null
    /\ PtsNow(k)[s] > PtsBefore(k)[s]

Unknown(sv) == sv = NullServe \/ sv = AbsentServe

\* C1: after a successful poll that finds the score of a match changed within
\* the running set, the recorded serve side is the side that won the latest
\* rally, also when both sides' points went up between the two polls.
C1_ServeSideIsLastRallyWinner ==
    [][LoadLiveResolve =>
        \A k \in Keys :
            ( /\ events[k].present /\ feed[k].present
              /\ PtsNow(k).setNo = PtsBefore(k).setNo
              /\ \/ PtsNow(k).home # PtsBefore(k).home
                 \/ PtsNow(k).away # PtsBefore(k).away )
            => serve'[k].side = lastRally[k]]_vars

\* the base score b of the example run: away has b points until it wins the
\* last rally
ExampleBase ==
    feed[Tracked].sets[1].away - (IF lastRally[Tracked] = "away" THEN 1 ELSE 0)

\* C2: polled at (b,b), (b+1,b), (b+2,b), (b+2,b+1) -- the spec's run is
\* b = 10 -- a match shows in order: serve unknown, no label; serve home not
\* hot, no label; serve home hot, label home break-point; serve away not hot,
\* label away side-out.
C2_EndToEndExample ==
    events[Tracked] = feed[Tracked] =>
        LET b == ExampleBase
            p == events[Tracked].sets[1]
            sv == serve[Tracked]
            lb == playLabel[Tracked]
        IN /\ (p.home = b /\ p.away = b) =>
                 (sv = NullServe /\ lb = NullLabel)
           /\ (p.home = b + 1 /\ p.away = b) =>
                 (sv = [side |-> "home", hot |-> FALSE] /\ lb = NullLabel)
           /\ (p.home = b + 2 /\ p.away = b) =>
                 /\ sv = [side |-> "home", hot |-> TRUE]
                 /\ lb = [side |-> "home", type |-> "break-point"]
           /\ (p.home = b + 2 /\ p.away = b + 1) =>
                 /\ sv = [side |-> "away", hot |-> FALSE]
                 /\ lb = [side |-> "away", type |-> "side-out"]

\* the spec's run has reached its fourth poll
C2_Witness ==
    /\ events[Tracked].present
    /\ events[Tracked].sets[1] = [home |-> 12, away |-> 11]
    /\ serve[Tracked] = [side |-> "away", hot |-> FALSE]
    /\ playLabel[Tracked] = [side |-> "away", type |-> "side-out"]

\* C3: a poll that shows only the points of the serving side S gone up makes
\* the serve S and hot, and labels the match {S, break-point}.
C3_BreakPoint ==
    [][LoadLiveResolve =>
        \A k \in Keys : \A s \in Sides :
            (serveRef[k].side = s /\ Rose(k, s) /\ ~Rose(k, Other(s)))
            => /\ serve'[k] = [side |-> s, hot |-> TRUE]
               /\ serveRef'[k] = serve'[k]
               /\ playLabel'[k] = [side |-> s, type |-> "break-point"]]_vars

C3_Witness ==
    /\ serve[Tracked] = [side |-> "home", hot |-> TRUE]
    /\ playLabel[Tracked] = [side |-> "home", type |-> "break-point"]
    /\ flash[Tracked].home # 0 /\ flash[Tracked].away = 0

\* C4: a poll that shows only the points of the side O that does not serve
\* gone up makes the serve O and not hot, and labels the match {O, side-out}.
C4_SideOut ==
    [][LoadLiveResolve =>
        \A k \in Keys : \A s \in Sides :
            (serveRef[k].side = s /\ Rose(k, Other(s)) /\ ~Rose(k, s))
            => /\ serve'[k] = [side |-> Other(s), hot |-> FALSE]
               /\ serveRef'[k] = serve'[k]
               /\ playLabel'[k] = [side |-> Other(s), type |-> "side-out"]]_vars

C4_Witness ==
    /\ serve[Tracked] = [side |-> "away", hot |-> FALSE]
    /\ playLabel[Tracked] = [side |-> "away", type |-> "side-out"]
    /\ flash[Tracked].away # 0 /\ flash[Tracked].home = 0

\* C5: from an unknown serve, a poll in which a side scored makes that side
\* the serving one, not hot, with no label; a poll in which no side scored
\* leaves the serve unknown, with no label.
C5_FromUnknown ==
    [][LoadLiveResolve =>
        \A k \in Keys :
            (feed[k].present /\ Unknown(serveRef[k])) =>
                /\ playLabel'[k] = NullLabel
                /\ (~Rose(k, "home") /\ ~Rose(k, "away")) =>
                       serve'[k] = NullServe
                /\ \A s \in Sides :
                       (Rose(k, s) /\ ~Rose(k, Other(s))) =>
                           serve'[k] = [side |-> s, hot |-> FALSE]
                /\ (Rose(k, "home") /\ Rose(k, "away")) =>
                       (serve'[k].side \in Sides /\ ~serve'[k].hot)]_vars

\* a point was just counted (flash) and it is the first one (no label)
C5_Witness ==
    /\ serve[Tracked] = [side |-> "home", hot |-> FALSE]
    /\ playLabel[Tracked] = NullLabel
    /\ flash[Tracked].home # 0

\* C6: a successful poll that shows the same points as the stored snapshot
\* leaves the serve state of the match, side and hot flag, as it was.
C6_NoChangeKeepsServe ==
    [][LoadLiveResolve =>
        \A k \in Keys :
            ( /\ events[k].present /\ feed[k].present
              /\ PtsNow(k).home = PtsBefore(k).home
              /\ PtsNow(k).away = PtsBefore(k).away )
            => (serve'[k] = serve[k] /\ serveRef'[k] = serveRef[k])]_vars

\* a hot serve that a later poll without a point (no flash) has left alone
C6_Witness ==
    /\ serve[Tracked].hot
    /\ events[Tracked] = feed[Tracked]
    /\ flash[Tracked] = NoFlash
    /\ playLabel[Tracked] = NullLabel

\* C7: the poll that sees a key the stored snapshots do not hold counts no
\* point: no label, no flash token, serve unknown.
C7_FirstSighting ==
    [][LoadLiveResolve =>
        \A k \in Keys :
            (feed[k].present /\ ~events[k].present) =>
                /\ serve'[k] = NullServe
                /\ serveRef'[k] = NullServe
                /\ playLabel'[k] = NullLabel
                /\ flash'[k] = NoFlash]_vars

\* a match first seen with points on the board, serve unknown
C7_Witness ==
    /\ events[Tracked].present
    /\ currentPoints(events[Tracked]).home > 0
    /\ currentPoints(events[Tracked]).away > 0
    /\ serve[Tracked] = NullServe
    /\ flash[Tracked] = NoFlash

\* C8: a poll whose current set differs from the stored snapshot's counts no
\* point for either side: no flash token, no label, serve state unchanged.
C8_SetTransitionIsNoScore ==
    [][LoadLiveResolve =>
        \A k \in Keys :
            ( /\ events[k].present /\ feed[k].present
              /\ PtsNow(k).setNo # PtsBefore(k).setNo )
            => /\ flash'[k] = NoFlash
               /\ playLabel'[k] = NullLabel
               /\ serve'[k] = serve[k]]_vars

\* C9: the serve state of a key is never reset: a successful poll whose array
\* lacks the key keeps the key's known serve state, and the poll in which the
\* key is back gives it the state the table held for it.
C9_ServeSurvivesAbsence ==
    [][LoadLiveResolve =>
        \A k \in Keys :
            /\ (serveRef[k].side \in Sides /\ ~feed[k].present) =>
                   serveRef'[k] = serveRef[k]
            /\ (feed[k].present /\ ~events[k].present) =>
                   serve'[k] = prevServeOf(serveRef, k)]_vars

\* no wake-lock request is unanswered and no release event is queued
WakeQuiet == wlPending = 0 /\ wlReleasing = {}

\* C10: once the acquire and release steps have completed, a wake lock is
\* held exactly when a match is focused, live and has a current set.
C10_HeldIffFocusedLiveSet ==
    (mounted /\ WakeQuiet) =>
        ((wlGranted # {}) <=> keepAwake(focusedId, events))

\* C11: at most one wake lock that was granted and not yet released exists
\* at any time, whatever the order of requests, pending promises, releases
\* and 'release' events.
C11_AtMostOneLock == Cardinality(wlGranted) <= 1

\* C12: a release does not overtake a pending acquire: when the last run of
\* the wake-lock effect (or the teardown) called releaseWakeLock while a
\* request was pending, no lock is held once that request resolves.
C12_ReleaseWinsOverPendingAcquire ==
    [][(wlPending' < wlPending /\ (~shouldKeepAwake \/ ~mounted)) =>
          wlGranted' = {}]_vars

\* C13: after the teardown, once every pending request has resolved, no
\* wake lock is held.
C13_NoLockAfterTeardown ==
    (~mounted /\ wlPending = 0) => wlGranted = {}

\* C14: after the teardown no poll cycle starts, no request is in flight
\* un-cancelled, and the stored snapshots and the serve, play-label and flash
\* tables are never written again.
C14_TeardownStopsPolling ==
    [][~mounted' => (inFlight' = 0 /\ pollVars' = pollVars)]_vars

\* torn down while a request was in flight, after a match had been published
C14_Witness ==
    /\ ~mounted
    /\ fetchState = "aborted"
    /\ abortedCnt > 0
    /\ events[Tracked].present
    /\ feed[Tracked] # events[Tracked]

\* the page is in the foreground again after the platform took the lock away
\* while it was hidden, and the focused match is still live with a current set
BackAfterRevoke == visible /\ wlRevoked /\ mounted /\ shouldKeepAwake

\* C15: when the platform revoked the lock while the page was hidden, the
\* hidden-to-visible transition with the keep-awake condition still true
\* requests the lock again, and the lock becomes held (unless the page is
\* hidden, unfocused or torn down first).
C15_RevokedLockComesBack ==
    /\ [][(~visible /\ BackAfterRevoke') =>
             wlPending' = wlPending + 1]_vars
    /\ (BackAfterRevoke /\ wlPending > 0) ~>
           (wlGranted # {} \/ ~BackAfterRevoke)

\* back in the foreground after a revocation, the lock is held again
C15_Witness ==
    /\ BackAfterRevoke
    /\ wakeLockRef # 0
    /\ wlGranted = {wakeLockRef}
    /\ wlPending = 0

\* C16: at most one live-feed request that has not been cancelled is in
\* flight at any time: a cycle that starts while the previous request is in
\* flight cancels it before issuing its own.
C16_OneRequestInFlight ==
    /\ inFlight <= 1
    /\ inFlight = 1 <=> fetchState = "pending"

\* a cycle started while the previous request was in flight; the old
\* request is cancelled and its AbortError not yet delivered
C16_Witness ==
    /\ fetchState = "pending"
    /\ inFlight = 1
    /\ abortedCnt > 0
    /\ mounted

\* C17: a cancelled cycle writes nothing: the step that ends it leaves the
\* stored snapshots and the serve, play-label and flash tables unchanged,
\* and every step that writes them ends a request that was not cancelled.
C17_CancelledCycleMergesNothing ==
    [][/\ abortedCnt' < abortedCnt => pollVars' = pollVars
       /\ pollVars' # pollVars =>
              (inFlight' = inFlight - 1 /\ abortedCnt' = abortedCnt)]_vars

\* a newer cycle published a changed snapshot while the AbortError of the
\* cancelled one is still to come
C17_Witness ==
    /\ abortedCnt > 0
    /\ fetchState = "settled"
    /\ events[Tracked].present
    /\ events[Tracked] = feed[Tracked]
    /\ serve[Tracked].side \in Sides

\* C18: a poll that fails for a reason other than cancellation sets a
\* non-empty error message and leaves the stored snapshots and the serve,
\* play-label and flash tables exactly as they were.
C18_FailureKeepsState ==
    [][LoadLiveReject => (error' # "" /\ pollVars' = pollVars)]_vars

\* a poll failed after a point had been reconciled: message shown, tables
\* kept, the feed ahead of the stored snapshot
C18_Witness ==
    /\ error # ""
    /\ fetchState = "settled"
    /\ serve[Tracked].side \in Sides
    /\ feed[Tracked] # events[Tracked]

\* C19: the end of a cancelled cycle never sets the error message.
C19_CancelIsSilent ==
    [][abortedCnt' < abortedCnt => error' = error]_vars

\* the teardown cancelled the request in flight and its AbortError has been
\* delivered: no message on screen
C19_Witness ==
    /\ ~mounted
    /\ fetchState = "aborted"
    /\ abortedCnt = 0
    /\ inFlight = 0
    /\ error = ""

\* C20: a malformed element in the array of one poll (a null element) does
\* not keep the other matches of that poll from being reconciled and
\* published: their snapshot, serve state and flash come out as without it.
C20_MalformedEntryIsSkipped ==
    [][LoadLiveResolve =>
        \A k \in Keys :
            feed[k].present =>
                /\ events'[k] = feed[k]
                /\ serve'[k] = newServeOf(events, serveRef,
                                          nextEventsOf(feed))[k]
                /\ flash'[k] = newFlashOf(events, flash,
                                          nextEventsOf(feed))[k]]_vars

C22_FilterChangeClearsFocus ==
    [][filter' # filter => focusedId' = "null"]_vars

\* C23: a click on the card of a match without a stable id, when that match
\* is not the focused one, makes it the focused match.
C23_FallbackKeyFocus ==
    [][\A k \in Keys :
          (SelectMatch(k) /\ ~events[k].hasId /\ focusedId # k) =>
              focusedId' = k]_vars

\* the record the roster tms holds for team id n: the last one whose id is
\* the number n or its decimal string; NoTeam when there is none
RosterEntry(tms, n) ==
    LET hit == {i \in DOMAIN tms :
                   /\ tms[i].id.kind \in {"number", "string"}
                   /\ tms[i].id.val = n}
    IN IF n = Null \/ hit = {} THEN NoTeam
       ELSE tms[CHOOSE i \in hit : \A j \in hit : j <= i]

\* the group the claim gives a match with team ids h and a under roster tms
GroupOf(h, a, tms) ==
    IF \/ RosterEntry(tms, h).country = "Norge"
       \/ RosterEntry(tms, a).country = "Norge"
    THEN "mizuno"
    ELSE IF RosterEntry(tms, h) # NoTeam \/ RosterEntry(tms, a) # NoTeam
    THEN "abroad"
    ELSE "other"

\* C24: classifyEventGroup gives 'mizuno' exactly when one of the two team
\* ids resolves in the roster to a team of country 'Norge', otherwise
\* 'abroad' exactly when one of them resolves at all, otherwise 'other'; an
\* empty roster gives 'other'. The result is a function of the snapshot's
\* ids and the roster alone, and the default filter of a page that shows
\* one live match is that match's group.
C24_ClassifierGroups ==
    /\ \A k \in Keys :
          classifyEventGroup(events[k], teamsBySofaId(teams)) =
              GroupOf(events[k].homeId, events[k].awayId, teams)
    /\ teams = <<>> =>
          \A k \in Keys :
              classifyEventGroup(events[k], teamsBySofaId(teams)) = "other"
    /\ (events[Tracked].present /\ isLiveStatus(events[Tracked])) =>
          filter = GroupOf(events[Tracked].homeId, events[Tracked].awayId,
                           teams)

\* the away team resolves to a Norwegian record given by a decimal string,
\* the home team is unknown to the roster: the match is in group 'mizuno'
C24_Witness ==
    /\ events[Tracked].present
    /\ isLiveStatus(events[Tracked])
    /\ events[Tracked].homeId = 777
    /\ events[Tracked].awayId = 501
    /\ teams = <<[id |-> StringId(501), country |-> "Sverige"],
                 [id |-> StringId(501), country |-> "Norge"]>>
    /\ filter = "mizuno"

\* C25: the roster is fetched again and again during a session: whenever
\* a roster request has been answered, a new roster request is eventually
\* started.
C25_RosterRefetched ==
    (teamsFetch = "settled") ~> (teamsFetch = "pending")

\* C26: a roster request that fails for a reason other than cancellation
\* sets a non-empty error message and leaves the loaded roster in place.
C26_RosterFailureIsShown ==
    [][TeamsReject => (error' # "" /\ teams' = teams)]_vars

Judged(k, s) ==
    /\ feed[k].present
    /\ IF s = "home"
       THEN homeScored(PtsNow(k), prevPoints(events, k))
       ELSE awayScored(PtsNow(k), prevPoints(events, k))

\* C28: after every successful poll the flash table holds a token for a
\* match and a side exactly when that side was judged to have scored in
\* that poll, and the token differs from the one held before; a token of an
\* earlier poll is gone after a poll in which the side did not score.
C28_FlashOnlyForThisPoll ==
    [][LoadLiveResolve =>
        \A k \in Keys, s \in Sides :
            /\ flash'[k][s] # 0 <=> Judged(k, s)
            /\ flash'[k][s] # 0 => flash'[k][s] # flash[k][s]
            /\ ~Judged(k, s) => flash'[k][s] = 0]_vars

\* a point was reconciled by an earlier poll (the serve side is known) and
\* the latest poll, which saw no new point, left no token
C28_Witness ==
    /\ fetchState = "settled"
    /\ events[Tracked] = feed[Tracked]
    /\ serve[Tracked].side \in Sides
    /\ flash[Tracked] = NoFlash

\* C29: the play label is never carried over: after a successful poll in
\* which no side of a match shows more points than before, the match has
\* no label.
C29_LabelNotCarriedOver ==
    [][LoadLiveResolve =>
        \A k \in Keys :
            (~Rose(k, "home") /\ ~Rose(k, "away")) =>
                playLabel'[k] = NullLabel]_vars

\* a break point was labelled by an earlier poll (the serve is hot) and the
\* latest poll, which saw no new point, left no label
C29_Witness ==
    /\ fetchState = "settled"
    /\ events[Tracked] = feed[Tracked]
    /\ serve[Tracked].hot
    /\ playLabel[Tracked] = NullLabel

\* C30: a side is judged to have scored in a poll exactly when its points
\* of the current set are known both in the stored and in the fetched
\* snapshot and the fetched value is the greater one: that side, and no
\* other, gets a flash token, and the serve changes only if a side scored.
C30_ScoredIffKnownAndGreater ==
    [][LoadLiveResolve =>
        \A k \in Keys :
            /\ \A s \in Sides : flash'[k][s] # 0 <=> Rose(k, s)
            /\ (feed[k].present /\ ~Rose(k, "home") /\ ~Rose(k, "away")) =>
                   serve'[k] = prevServeOf(serveRef, k)
            /\ Rose(k, "away") => serve'[k].side = "away"
            /\ (Rose(k, "home") /\ ~Rose(k, "away")) =>
                   serve'[k].side = "home"]_vars

\* the home side alone was judged to have scored in the latest poll
C30_Witness ==
    /\ fetchState = "settled"
    /\ flash[Tracked].home # 0
    /\ flash[Tracked].away = 0
    /\ serve[Tracked].side = "home"

\* the highest set slot of snapshot ev that holds a point value, Null when
\* no slot does
HighestSet(ev) ==
    LET hit == {i \in DOMAIN ev.sets :
                   ev.sets[i].home # Null \/ ev.sets[i].away # Null}
    IN IF hit = {} THEN Null
       ELSE CHOOSE i \in hit : \A j \in hit : j <= i

\* the result the claims give for snapshot ev
PointsOf(ev) ==
    IF HighestSet(ev) = Null
    THEN [setNo |-> Null, home |-> Null, away |-> Null]
    ELSE [setNo |-> HighestSet(ev),
          home |-> ev.sets[HighestSet(ev)].home,
          away |-> ev.sets[HighestSet(ev)].away]

\* C31: for every stored snapshot, here one of at most five sets,
\* currentPoints gives the highest set slot with a point value and that
\* slot's pair, or no set and no points when no slot has a value, whatever
\* the status text says.
C31_CurrentSetIsHighestWithPoints ==
    \A k \in Keys :
        (events[k].present /\ HighestSet(events[k]) <= ScanTop) =>
            currentPoints(events[k]) = PointsOf(events[k])

\* C32: for a stored snapshot whose highest set slot with a point value is
\* beyond the fifth, currentPoints gives that slot as the current set.
C32_NoMaximumNumberOfSets ==
    \A k \in Keys :
        (events[k].present /\ HighestSet(events[k]) > ScanTop) =>
            currentPoints(events[k]).setNo = HighestSet(events[k])

\* the side of match k the poll now answered finds scored, from the raw
\* point values: away when both rose
Scorer(k) ==
    IF Rose(k, "away") THEN "away"
    ELSE IF Rose(k, "home") THEN "home"
    ELSE "null"

\* serve state and label of match k after the poll, from that match's own
\* serve entry and own points alone
OwnServe(k) ==
    IF Scorer(k) = "null" THEN prevServeOf(serveRef, k)
    ELSE [side |-> Scorer(k), hot |-> serveRef[k].side = Scorer(k)]

OwnLabel(k) ==
    IF Scorer(k) = "null" \/ serveRef[k].side \notin Sides THEN NullLabel
    ELSE [side |-> Scorer(k),
          type |-> IF serveRef[k].side = Scorer(k)
                   THEN "break-point" ELSE "side-out"]

\* C33: the serve state and the play label of a match after a poll are a
\* function of that match's own prior serve state and own point delta: a
\* match whose own points did not move keeps its serve state and has no
\* label, whatever the points of the other match did in the same poll.
C33_KeysDoNotInterfere ==
    [][LoadLiveResolve =>
        \A k \in Keys :
            feed[k].present =>
                /\ serve'[k] = OwnServe(k)
                /\ playLabel'[k] = OwnLabel(k)
                /\ PtsNow(k) = PtsBefore(k) =>
                       (serve'[k] = serve[k] /\ playLabel'[k] = NullLabel)]_vars

\* the latest poll brought a side-out in the tracked match and no point in
\* the other one, whose serve stays hot with the home side
C33_Witness ==
    /\ fetchState = "settled"
    /\ playLabel[Tracked].type = "side-out"
    /\ serve["M2"] = [side |-> "home", hot |-> TRUE]
    /\ playLabel["M2"] = NullLabel
    /\ flash["M2"] = NoFlash

\* a legal serve record: no entry, null, or a side with a hot flag
LegalServe(sv) ==
    \/ sv = AbsentServe
    \/ sv = NullServe
    \/ sv \in [side : Sides, hot : BOOLEAN]

\* C34: no reachable serve table holds an illegal record: every record of
\* the published table and of the ref is null or has side home or away, and
\* a record with hot = true has side home or away.
C34_ServeRecordsAreLegal ==
    \A k \in Keys :
        /\ LegalServe(serve[k])
        /\ LegalServe(serveRef[k])
        /\ serve[k].hot => serve[k].side \in Sides
        /\ serveRef[k].hot => serveRef[k].side \in Sides

\* after polls that answered, failed or were cancelled and after the
\* teardown, the table holds a hot serve of a known side
C34_Witness ==
    /\ ~mounted
    /\ error # ""
    /\ serve[Tracked].hot
    /\ serve[Tracked].side \in Sides
    /\ serveRef[Tracked] = serve[Tracked]

\* C35: in the hub, a tick whose /live request fails leaves the list of
\* live matches as it was shown before.
C35_HubKeepsLiveListOnFailure ==
    [][(\E refresh \in BOOLEAN, coreOk \in BOOLEAN,
           nextOk \in BOOLEAN, prevOk \in BOOLEAN :
           HubTick(refresh, coreOk, FALSE, nextOk, prevOk)) =>
        live' = live]_vars

\* C36: a play label that exists after a poll agrees with the serve state
\* of the same match after that poll: same side, a break-point label with
\* hot = true, a side-out label with hot = false.
C36_LabelAgreesWithServe ==
    \A k \in Keys :
        playLabel[k] # NullLabel =>
            /\ playLabel[k].side = serve[k].side
            /\ playLabel[k].type = "break-point" => serve[k].hot
            /\ playLabel[k].type = "side-out" => ~serve[k].hot

\* in the second set the away side took the serve with a side-out: the
\* label and the serve state both say away, not hot
C36_Witness ==
    /\ playLabel[Tracked] = [side |-> "away", type |-> "side-out"]
    /\ serve[Tracked] = [side |-> "away", hot |-> FALSE]
    /\ PtsBefore(Tracked).setNo = 2

\* C37: a poll that shows the points of both sides of a match gone up
\* gives both sides a flash token and treats away as the side that scored:
\* the serve goes to away (hot if away served before) and the label is the
\* one of a point by away.
C37_BothRoseCountsAsAway ==
    [][LoadLiveResolve =>
        \A k \in Keys :
            (Rose(k, "home") /\ Rose(k, "away")) =>
                /\ flash'[k].home # 0
                /\ flash'[k].away # 0
                /\ serve'[k] =
                       [side |-> "away", hot |-> serveRef[k].side = "away"]
                /\ playLabel'[k] =
                       IF serveRef[k].side = "away"
                       THEN [side |-> "away", type |-> "break-point"]
                       ELSE IF serveRef[k].side = "home"
                       THEN [side |-> "away", type |-> "side-out"]
                       ELSE NullLabel]_vars

\* both sides scored between two polls while home served: two tokens, and
\* a side-out for away
C37_Witness ==
    /\ flash[Tracked].home # 0
    /\ flash[Tracked].away # 0
    /\ serve[Tracked] = [side |-> "away", hot |-> FALSE]
    /\ playLabel[Tracked] = [side |-> "away", type |-> "side-out"]

\* C38: a serve side that is known stays known as long as the match is in
\* the array of every successful poll: a step after which the side is not
\* known any more is the answer of a poll that does not hold the match;
\* failed and cancelled polls leave the side as it is.
C38_KnownServeStaysKnown ==
    [][\A k \in Keys :
          serve[k].side \in Sides =>
              \/ serve'[k].side \in Sides
              \/ LoadLiveResolve /\ ~feed[k].present]_vars

\* the serve of the match became hot, then a poll failed: the message is
\* shown and the serve is still known
C38_Witness ==
    /\ mounted
    /\ error # ""
    /\ fetchState = "settled"
    /\ abortedCnt = 0
    /\ events[Tracked] = feed[Tracked]
    /\ serve[Tracked].hot
    /\ serveRef[Tracked].side \in Sides

\* C39: no wake lock is orphaned: every lock that is granted and not
\* released is the one wakeLockRef holds, so that releaseWakeLock releases
\* it.
C39_NoOrphanedLock == \A l \in wlGranted : wakeLockRef = l

\* C40: whenever the counts of live matches per group change, the filter
\* becomes 'mizuno' if a live match is in that group, else 'abroad' if one
\* is in that group, else 'other', also when a filter button had set it.
C40_CountsChangeResetsFilter ==
    [][countsOf(events', teams') # countsOf(events, teams) =>
          filter' = defaultFilter(countsOf(events', teams'))]_vars

\* a filter button had set the filter; then the counts changed and the
\* effect replaced it by 'mizuno', the group of the one live match
C40_Witness ==
    /\ filterBy = "override"
    /\ filter = "mizuno"
    /\ countsOf(events, teams).mizuno = 1

====
